---- MODULE Spec2Model ----
(***************************************************************************)
(* Model of app.py, the Streamlit page "Prediksi Harga Rumah Melbourne".   *)
(*                                                                         *)
(* One process serves the page.  Every page load and every form            *)
(* submission runs main() from the top.  load_models() is memoised by      *)
(* st.cache_resource, so its body runs on the first call only and its      *)
(* result (and the st.error it emitted) is reused by every later run.      *)
(*                                                                         *)
(* Python values are records carrying their type, so that None, numbers,   *)
(* strings and objects can be compared with one another.  A float is held  *)
(* in tenths (v = 15 is 1.5), which is exact for every float of the page   *)
(* (steps of 0.5) and lets int() truncate something.                       *)
(***************************************************************************)
EXTENDS Integers, Sequences, FiniteSets, TLC

VARIABLES
    files,          \* the artifacts under MODELS_DIR, file name -> content
    cache,          \* st.cache_resource's entry for load_models
    reads,          \* every file read so far in this process, in order
    submit_button,  \* the last run of main(): value of the submit button
    models_data,    \*   what load_models() returned to it
    input_data,     \*   the DataFrame it built
    calls,          \*   the model.predict calls it made, in order
    linear_pred,    \*   its local linear_pred
    poly_pred,      \*   its local poly_pred
    best_pred,      \*   its local best_pred
    ui,             \*   the elements it rendered, in order
    exc,            \*   the exception that ended it ("none": it returned)
    snap            \* a remembered submission: its record and results, and
                    \*   whether a run with another record came after it

vars == <<files, cache, reads, submit_button, models_data, input_data, calls,
          linear_pred, poly_pred, best_pred, ui, exc, snap>>

----------------------------------------------------------------------------
(* Python values *)

None == [type |-> "NoneType"]
Unbound == [type |-> "unbound"]
PyInt(n) == [type |-> "int", v |-> n]
PyFloat(tenths) == [type |-> "float", v |-> tenths]
PyStr(s) == [type |-> "str", v |-> s]

IsNumber(x) == x.type \in {"int", "float"}

\* int(x): truncation toward zero of a float, TypeError on None.
IntOf(x) ==
    IF x.type = "float"
    THEN [raised |-> FALSE,
          v |-> IF x.v >= 0 THEN x.v \div 10 ELSE -((-x.v) \div 10)]
    ELSE IF x.type = "int"
    THEN [raised |-> FALSE, v |-> x.v]
    ELSE [raised |-> TRUE, v |-> 0]

Pad3(g) ==
    IF g < 10 THEN "00" \o ToString(g)
    ELSE IF g < 100 THEN "0" \o ToString(g)
    ELSE ToString(g)

RECURSIVE Grouped(_)
Grouped(n) ==
    IF n < 1000 THEN ToString(n)
    ELSE Grouped(n \div 1000) \o "," \o Pad3(n % 1000)

\* f"${n:,}"
Money(n) == IF n < 0 THEN "$-" \o Grouped(-n) ELSE "$" \o Grouped(n)

----------------------------------------------------------------------------
(* Rendered elements *)

El(kind) == [element |-> kind]
Message(kind, body) == [element |-> kind, body |-> body]

LoadErrorText == "Error saat memuat model"
PredictErrorText == "Error saat membuat prediksi"
MainErrorText == "Gagal memuat model. Silakan periksa file model dan path direktori."
SuccessText == "Prediksi Selesai!"

----------------------------------------------------------------------------
(* The artifacts under MODELS_DIR *)

MODELS_DIR == "./models"

LinearFile == "linear_regression.joblib"
PolyFile == "polynomial_regression_(degree=2).joblib"
PreprocessorFile == "preprocessor.joblib"
FeatureInfoFile == "feature_info.joblib"
BestNameFile == "best_model_name.txt"

\* The order in which load_models reads them.
LoadOrder == <<LinearFile, PolyFile, PreprocessorFile, FeatureInfoFile, BestNameFile>>

Missing == [type |-> "missing"]

NumericalCols == <<"Rooms", "Distance", "Bedroom2", "Bathroom", "Car", "Landsize",
                   "BuildingArea", "YearBuilt", "Propertycount">>
CategoricalCols == <<"Type", "Method", "Regionname", "CouncilArea">>

TypeOptions == <<"house", "unit", "townhouse">>
RegionOptions == <<"Northern Metropolitan", "Southern Metropolitan",
                   "Western Metropolitan", "Eastern Metropolitan",
                   "South-Eastern Metropolitan", "Eastern Victoria",
                   "Northern Victoria", "Western Victoria">>
CouncilOptions == <<"Banyule", "Bayside", "Boroondara", "Brimbank", "Cardinia",
                    "Casey", "Darebin", "Frankston", "Glen Eira", "Greater Dandenong",
                    "Hobsons Bay", "Hume", "Kingston", "Knox", "Macedon Ranges",
                    "Manningham", "Maribyrnong", "Maroondah", "Melbourne", "Melton",
                    "Monash", "Moonee Valley", "Moreland", "Mornington Peninsula",
                    "Nillumbik", "Port Phillip", "Stonnington", "Whitehorse",
                    "Whittlesea", "Yarra", "Yarra Ranges">>
MethodOptions == <<"S", "SP", "PI", "VB", "SA">>

Range(seq) == {seq[i] : i \in DOMAIN seq}

\* The two pipelines are opaque to app.py.  Each stands for a fitted sklearn
\* Pipeline: a function of the record that raises on a record lacking one of
\* the training columns or holding a category its encoder has not seen.  The
\* linear one has not seen Type "townhouse", the polynomial one Method "SA".
LinearPipeline ==
    [type |-> "Pipeline", degree |-> 1,
     unseen |-> [Type |-> {"townhouse"}, Method |-> {}],
     intercept |-> -2500005, coef |-> 1500000, coef2 |-> 0]

PolyPipeline ==
    [type |-> "Pipeline", degree |-> 2,
     unseen |-> [Type |-> {}, Method |-> {"SA"}],
     intercept |-> 700007, coef |-> 100000, coef2 |-> 100000]

Preprocessor == [type |-> "ColumnTransformer"]

FeatureInfo ==
    [type |-> "dict",
     numerical_cols_used |-> NumericalCols,
     categorical_cols_used |-> CategoricalCols]

\* A text file is the sequence of its pieces; a piece is a word or one
\* whitespace character.
TextFile(pieces) == [type |-> "text", pieces |-> pieces]

BestNameTexts ==
    { <<"Linear", " ", "Regression", "\n">>,
      <<" ", "Polynomial", " ", "Regression", " ", "(degree=2)", "\n">>,
      <<"\n">>,
      <<"Random", " ", "Forest">> }

\* What each file of MODELS_DIR may hold.
Contents(name) ==
    {Missing} \cup
    CASE name = LinearFile -> {LinearPipeline}
      [] name = PolyFile -> {PolyPipeline}
      [] name = PreprocessorFile -> {Preprocessor}
      [] name = FeatureInfoFile -> {FeatureInfo}
      [] name = BestNameFile -> {TextFile(t) : t \in BestNameTexts}

Whitespace == {" ", "\n", "\t", "\r"}

\* str.strip(): drops the leading and the trailing whitespace only.
RECURSIVE LStrip(_)
LStrip(s) ==
    IF s # <<>> /\ Head(s) \in Whitespace THEN LStrip(Tail(s)) ELSE s

RECURSIVE RStrip(_)
RStrip(s) ==
    IF s # <<>> /\ s[Len(s)] \in Whitespace
    THEN RStrip(SubSeq(s, 1, Len(s) - 1))
    ELSE s

StripNoOp(s) == s

Strip(s) == RStrip(LStrip(s))

RECURSIVE Join(_)
Join(s) == IF s = <<>> THEN "" ELSE Head(s) \o Join(Tail(s))

Min(S) == CHOOSE x \in S : \A y \in S : x <= y

\* joblib.load(path) / open(path): raises when the file is not there.
Load(fs, name) ==
    IF fs[name].type = "missing"
    THEN [raised |-> TRUE, value |-> None]
    ELSE [raised |-> FALSE, value |-> fs[name]]

\* The dict load_models returns when nothing raised.
Bundle(fs) ==
    ("Linear Regression" :> Load(fs, LinearFile).value)
    @@ ("Polynomial Regression (degree=2)" :> Load(fs, PolyFile).value)
    @@ ("best_model_name" :> Join(Strip(Load(fs, BestNameFile).value.pieces)))
    @@ ("preprocessor" :> Load(fs, PreprocessorFile).value)
    @@ ("feature_info" :> Load(fs, FeatureInfoFile).value)
    @@ [type |-> "dict"]

\* load_models with every read in a try of its own: what failed is left None.
LoadModelsBodyPartial(fs) ==
    LET failing == {i \in DOMAIN LoadOrder : Load(fs, LoadOrder[i]).raised}
        text == Load(fs, BestNameFile).value
    IN  [value |-> ("Linear Regression" :> Load(fs, LinearFile).value)
                   @@ ("Polynomial Regression (degree=2)" :> Load(fs, PolyFile).value)
                   @@ ("best_model_name" :>
                         IF text = None THEN "" ELSE Join(Strip(text.pieces)))
                   @@ ("preprocessor" :> Load(fs, PreprocessorFile).value)
                   @@ ("feature_info" :> Load(fs, FeatureInfoFile).value)
                   @@ [type |-> "dict"],
         ui |-> IF failing = {} THEN <<>> ELSE <<Message("error", LoadErrorText)>>,
         read |-> LoadOrder]

\* The body of load_models: the five reads in order inside one try; the
\* first that raises ends them, st.error is emitted and None returned.
LoadModelsBody(fs) ==
    LET failing == {i \in DOMAIN LoadOrder : Load(fs, LoadOrder[i]).raised}
    IN  IF failing = {}
        THEN [value |-> Bundle(fs), ui |-> <<>>, read |-> LoadOrder]
        ELSE [value |-> None,
              ui |-> <<Message("error", LoadErrorText)>>,
              read |-> SubSeq(LoadOrder, 1, Min(failing))]

Uncached == [type |-> "uncached"]

\* load_models without the decorator: the body runs on every call.
LoadModelsUncached(entry, fs) ==
    LET r == LoadModelsBody(fs)
    IN  [value |-> r.value, ui |-> r.ui, read |-> r.read,
         entry |-> [type |-> "cached", value |-> r.value, ui |-> r.ui]]

\* @st.cache_resource: the body runs on a miss only; a hit returns the stored
\* value and replays the elements the body emitted.
LoadModels(entry, fs) ==
    IF entry.type = "uncached"
    THEN LET r == LoadModelsBody(fs)
         IN  [value |-> r.value, ui |-> r.ui, read |-> r.read,
              entry |-> [type |-> "cached", value |-> r.value, ui |-> r.ui]]
    ELSE [value |-> entry.value, ui |-> entry.ui, read |-> <<>>, entry |-> entry]

----------------------------------------------------------------------------
(* The form of tab 1 *)

Slider(lo, hi, value, step, type) ==
    [widget |-> "slider", type |-> type,
     min_value |-> lo, max_value |-> hi, value |-> value, step |-> step]

NumberInput(lo, hi, value, step) ==
    [widget |-> "number_input", type |-> "int",
     min_value |-> lo, max_value |-> hi, value |-> value, step |-> step]

Selectbox(options) == [widget |-> "selectbox", type |-> "str", options |-> options]

\* The widgets, by the local variable main() binds each to.  distance is a
\* float slider: 0.0 to 40.0, initially 10.0, in steps of 0.5 (held in tenths).
Widgets ==
    [rooms          |-> Slider(1, 10, 3, 1, "int"),
     bedrooms       |-> Slider(1, 8, 2, 1, "int"),
     bathrooms      |-> Slider(1, 5, 1, 1, "int"),
     car_spaces     |-> Slider(0, 5, 1, 1, "int"),
     land_size      |-> NumberInput(50, 2000, 500, 50),
     building_area  |-> NumberInput(50, 1000, 150, 25),
     year_built     |-> Slider(1900, 2023, 1990, 1, "int"),
     distance       |-> Slider(0, 400, 100, 5, "float"),
     property_type  |-> Selectbox(TypeOptions),
     region         |-> Selectbox(RegionOptions),
     council        |-> Selectbox(CouncilOptions),
     method         |-> Selectbox(MethodOptions),
     property_count |-> Slider(100, 10000, 5000, 100, "int")]

WidgetNames == DOMAIN Widgets

Typed(w, v) == [type |-> w.type, v |-> v]

\* Whether widget w can return x: a slider returns a value on its grid, a
\* number input any integer between its limits (its step only drives the
\* +/- buttons), a select box one of its options.
Returns(w, x) ==
    /\ x.type = w.type
    /\ CASE w.widget = "slider" ->
              /\ w.min_value <= x.v /\ x.v <= w.max_value
              /\ (x.v - w.min_value) % w.step = 0
         [] w.widget = "number_input" ->
              w.min_value <= x.v /\ x.v <= w.max_value
         [] w.widget = "selectbox" ->
              x.v \in Range(w.options)

\* What a widget returns before the user touches it.
Initial(w) ==
    IF w.widget = "selectbox" THEN Typed(w, w.options[1]) ELSE Typed(w, w.value)

Defaults == [n \in WidgetNames |-> Initial(Widgets[n])]

\* How many grid steps next to each limit of a numeric widget the model
\* lets the user pick.
Near == 1

\* The values of widget w the model lets the user pick: every option of a
\* select box; of a numeric widget the initial value and the grid values
\* within Near steps of each limit, and of a number input also the typed
\* values one off each limit.
Picks(w) ==
    IF w.widget = "selectbox"
    THEN {Typed(w, o) : o \in Range(w.options)}
    ELSE {x \in {Typed(w, v) :
                   v \in {w.value, w.min_value + 1, w.max_value - 1}
                         \cup {w.min_value + i * w.step : i \in 0..Near}
                         \cup {w.max_value - i * w.step : i \in 0..Near}} :
            Returns(w, x)}

\* The forms with every widget at its lower limit (first option) and at its
\* upper limit (last option).
Lowest ==
    [n \in WidgetNames |->
        IF Widgets[n].widget = "selectbox"
        THEN Typed(Widgets[n], Widgets[n].options[1])
        ELSE Typed(Widgets[n], Widgets[n].min_value)]

Highest ==
    [n \in WidgetNames |->
        IF Widgets[n].widget = "selectbox"
        THEN Typed(Widgets[n], Widgets[n].options[Len(Widgets[n].options)])
        ELSE Typed(Widgets[n], Widgets[n].max_value)]

\* The forms of the form specification: the initial form with at most one
\* widget moved to one of its picks, and the two extreme forms.
FormInputs ==
    {Defaults, Lowest, Highest}
    \cup UNION {{[Defaults EXCEPT ![n] = x] : x \in Picks(Widgets[n])} :
                  n \in WidgetNames}

ColumnsSwapped(form) ==
    <<<<"Rooms", <<form.rooms>>>>,
      <<"Distance", <<form.distance>>>>,
      <<"Bedroom2", <<form.bedrooms>>>>,
      <<"Bathroom", <<form.bathrooms>>>>,
      <<"Car", <<form.car_spaces>>>>,
      <<"Landsize", <<form.building_area>>>>,
      <<"BuildingArea", <<form.land_size>>>>,
      <<"YearBuilt", <<form.year_built>>>>,
      <<"Propertycount", <<form.property_count>>>>,
      <<"Type", <<form.property_type>>>>,
      <<"Method", <<form.method>>>>,
      <<"Regionname", <<form.region>>>>,
      <<"CouncilArea", <<form.council>>>>>>

ColumnsWithoutCar(form) ==
    <<<<"Rooms", <<form.rooms>>>>,
      <<"Distance", <<form.distance>>>>,
      <<"Bedroom2", <<form.bedrooms>>>>,
      <<"Bathroom", <<form.bathrooms>>>>,
      <<"Landsize", <<form.land_size>>>>,
      <<"BuildingArea", <<form.building_area>>>>,
      <<"YearBuilt", <<form.year_built>>>>,
      <<"Propertycount", <<form.property_count>>>>,
      <<"Type", <<form.property_type>>>>,
      <<"Method", <<form.method>>>>,
      <<"Regionname", <<form.region>>>>,
      <<"CouncilArea", <<form.council>>>>>>

\* The dict literal handed to pd.DataFrame: column name and one-element list,
\* in the order written.
Columns(form) ==
    <<<<"Rooms", <<form.rooms>>>>,
      <<"Distance", <<form.distance>>>>,
      <<"Bedroom2", <<form.bedrooms>>>>,
      <<"Bathroom", <<form.bathrooms>>>>,
      <<"Car", <<form.car_spaces>>>>,
      <<"Landsize", <<form.land_size>>>>,
      <<"BuildingArea", <<form.building_area>>>>,
      <<"YearBuilt", <<form.year_built>>>>,
      <<"Propertycount", <<form.property_count>>>>,
      <<"Type", <<form.property_type>>>>,
      <<"Method", <<form.method>>>>,
      <<"Regionname", <<form.region>>>>,
      <<"CouncilArea", <<form.council>>>>>>

\* pd.DataFrame(dict): the columns in the dict's order, each holding its list.
DataFrame(dict) ==
    [type |-> "DataFrame",
     columns |-> [i \in DOMAIN dict |-> dict[i][1]],
     data |-> [c \in {dict[i][1] : i \in DOMAIN dict} |->
                 dict[CHOOSE i \in DOMAIN dict : dict[i][1] = c][2]]]

----------------------------------------------------------------------------
(* Prediction *)

\* model.predict(X): an array of one prediction per row, or an exception
\* (also when model is no pipeline at all and has no predict).
Predict(model, X) ==
    IF \/ model.type # "Pipeline"
       \/ ~(Range(NumericalCols) \cup Range(CategoricalCols) \subseteq Range(X.columns))
       \/ \E c \in DOMAIN model.unseen : X.data[c][1].v \in model.unseen[c]
    THEN [raised |-> TRUE, value |-> <<>>]
    ELSE LET r == X.data["Rooms"][1].v
         IN  [raised |-> FALSE,
              value |-> <<PyFloat(model.intercept + model.coef * r
                                  + model.coef2 * r * r)>>]

\* predict_price answering from the previous run's call of the same model.
PredictPriceMemo(model, input) ==
    IF \E i \in DOMAIN calls : calls[i].model = model
    THEN [value |-> IF model.degree = 1 THEN linear_pred ELSE poly_pred,
          ui |-> <<>>,
          call |-> [model |-> model, X |-> input]]
    ELSE LET p == Predict(model, input)
         IN  [value |-> IF p.raised THEN None ELSE p.value[1],
              ui |-> IF p.raised THEN <<Message("error", PredictErrorText)>> ELSE <<>>,
              call |-> [model |-> model, X |-> input]]

\* predict_price: the first prediction, or st.error and None.
PredictPrice(model, input) ==
    LET p == Predict(model, input)
    IN  IF p.raised
        THEN [value |-> None,
              ui |-> <<Message("error", PredictErrorText)>>,
              call |-> [model |-> model, X |-> input]]
        ELSE [value |-> p.value[1],
              ui |-> <<>>,
              call |-> [model |-> model, X |-> input]]

----------------------------------------------------------------------------
(* main() *)

\* A statement that renders an element, or raises.
Step(el) == [raised |-> FALSE, el |-> el]
Raise(error) == [raised |-> TRUE, el |-> Message("exception", error)]

\* st.metric(label, f"${int(x):,}")
Metric(label, x) ==
    IF IntOf(x).raised
    THEN Raise("TypeError")
    ELSE Step([element |-> "metric", label |-> label, value |-> Money(IntOf(x).v)])

\* The bar chart of the two predictions, each bar labelled f'${int(height):,}'.
BarChart(l, p) ==
    IF IntOf(l).raised \/ IntOf(p).raised
    THEN Raise("TypeError")
    ELSE Step([element |-> "pyplot",
               labels |-> <<Money(IntOf(l).v), Money(IntOf(p).v)>>])

\* Statements run in order until one raises.
FirstRaise(steps) ==
    IF \E i \in DOMAIN steps : steps[i].raised
    THEN Min({i \in DOMAIN steps : steps[i].raised})
    ELSE Len(steps) + 1

Rendered(steps) == [i \in 1..(FirstRaise(steps) - 1) |-> steps[i].el]

Raised(steps) ==
    IF FirstRaise(steps) <= Len(steps)
    THEN steps[FirstRaise(steps)].el.body
    ELSE "none"

PageHead == <<El("title"), El("markdown")>>
FormElements == <<El("tabs"), El("header"), El("columns"), El("form")>>
StaticTabs == <<El("tab2"), El("tab3")>>

\* best_pred = linear_pred if best_model == 'Linear Regression' else poly_pred
BestPred(best_model, l, p) ==
    IF best_model = "Linear Regression" THEN l ELSE p

\* The two predict_price calls: the linear pipeline, then the polynomial one.
PredictionsLinearFirstOnly(models, input) ==
    LET lin == PredictPrice(models["Linear Regression"], input)
    IN  IF lin.value = None
        THEN <<lin, [value |-> None, ui |-> <<>>, call |-> None]>>
        ELSE <<lin, PredictPrice(models["Polynomial Regression (degree=2)"], input)>>

Predictions(models, input) ==
    <<PredictPrice(models["Linear Regression"], input),
      PredictPrice(models["Polynomial Regression (degree=2)"], input)>>

\* The block under "if submit_button:".
Submission(models, form) ==
    LET input == DataFrame(Columns(form))
        both == Predictions(models, input)
        lin == both[1]
        poly == both[2]
        best_model == models["best_model_name"]
        best == BestPred(best_model, lin.value, poly.value)
        steps == <<Step(Message("success", SuccessText)),
                   Metric("Prediksi Regresi Linear", lin.value),
                   Metric("Prediksi Regresi Polinomial", poly.value),
                   Metric("Prediksi Model Terbaik (" \o best_model \o ")", best),
                   BarChart(lin.value, poly.value),
                   Step(El("info"))>>
    IN  [input_data |-> input,
         calls |-> SelectSeq(<<lin.call, poly.call>>, LAMBDA c : c # None),
         linear_pred |-> lin.value,
         poly_pred |-> poly.value,
         best_pred |-> best,
         ui |-> lin.ui \o poly.ui \o Rendered(steps),
         exc |-> Raised(steps)]

NoSubmission ==
    [input_data |-> Unbound, calls |-> <<>>, linear_pred |-> Unbound,
     poly_pred |-> Unbound, best_pred |-> Unbound, ui |-> <<>>, exc |-> "none"]

\* models_data['feature_info'][...]: raises when feature_info is no dict.
FeatureLookup(models) ==
    IF models["feature_info"].type = "dict" THEN "none" ELSE "TypeError"

\* main() with the return after the load error left out.
MainWithoutReturn(loaded, submit, form) ==
    IF loaded.value = None
    THEN [NoSubmission EXCEPT
            !.ui = PageHead \o loaded.ui \o <<Message("error", MainErrorText)>>
                   \o FormElements,
            !.exc = "TypeError"]
    ELSE LET sub == IF submit THEN Submission(loaded.value, form) ELSE NoSubmission
         IN  [sub EXCEPT
                !.ui = PageHead \o loaded.ui \o FormElements \o sub.ui
                       \o (IF sub.exc = "none" THEN StaticTabs ELSE <<>>)]

\* One run of main(): loaded is what load_models() gave, submit what
\* st.form_submit_button returned, form what the widgets returned.
Main(loaded, submit, form) ==
    IF loaded.value = None
    THEN [NoSubmission EXCEPT
            !.ui = PageHead \o loaded.ui \o <<Message("error", MainErrorText)>>]
    ELSE IF FeatureLookup(loaded.value) # "none"
    THEN [NoSubmission EXCEPT
            !.ui = PageHead \o loaded.ui,
            !.exc = FeatureLookup(loaded.value)]
    ELSE LET sub == IF submit THEN Submission(loaded.value, form) ELSE NoSubmission
         IN  [sub EXCEPT
                !.ui = PageHead \o loaded.ui \o FormElements \o sub.ui
                       \o (IF sub.exc = "none" THEN StaticTabs ELSE <<>>)]

----------------------------------------------------------------------------
(* The process *)

NoSnap == [type |-> "none"]

\* What a submission displayed.
Shown(run) == <<run.linear_pred, run.poly_pred, run.best_pred, run.ui, run.exc>>

Init ==
    /\ files \in [Range(LoadOrder) -> UNION {Contents(n) : n \in Range(LoadOrder)}]
    /\ \A n \in Range(LoadOrder) : files[n] \in Contents(n)
    /\ cache = Uncached
    /\ reads = <<>>
    /\ submit_button = FALSE
    /\ models_data = Unbound
    /\ input_data = Unbound
    /\ calls = <<>>
    /\ linear_pred = Unbound
    /\ poly_pred = Unbound
    /\ best_pred = Unbound
    /\ ui = <<>>
    /\ exc = "none"
    /\ snap = NoSnap

\* The script runs from the top.  remember: whether this run is the one
\* the snapshot keeps.
RunMain(submit, form, remember) ==
    \* (each \E binds the one value of a call, so that it is computed once)
    \E loaded \in {LoadModels(cache, files)} :
    \E run \in {Main(loaded, submit, form)} :
        /\ cache' = loaded.entry
        /\ reads' = reads \o loaded.read
        /\ submit_button' = submit
        /\ models_data' = loaded.value
        /\ input_data' = run.input_data
        /\ calls' = run.calls
        /\ linear_pred' = run.linear_pred
        /\ poly_pred' = run.poly_pred
        /\ best_pred' = run.best_pred
        /\ ui' = run.ui
        /\ exc' = run.exc
        /\ snap' = IF remember
                   THEN [type |-> "snap", cache |-> loaded.entry,
                         input_data |-> run.input_data, shown |-> Shown(run),
                         between |-> FALSE]
                   ELSE IF snap.type = "snap" /\ snap.input_data # run.input_data
                   THEN [snap EXCEPT !.between = TRUE]
                   ELSE snap
        /\ UNCHANGED files

\* A page load or a rerun without a submission.
Rerun == RunMain(FALSE, Defaults, FALSE)

\* The user presses "Prediksi Harga" with the widgets at form.
Submit(form, remember) == RunMain(TRUE, form, remember)

\* Someone replaces, adds or removes an artifact on disk.
ReplaceArtifact(name, content) ==
    /\ files[name] # content
    /\ files' = [files EXCEPT ![name] = content]
    /\ UNCHANGED <<cache, reads, submit_button, models_data, input_data, calls,
                   linear_pred, poly_pred, best_pred, ui, exc, snap>>

\* The forms of the main specification: the initial form, and that form with
\* more rooms, as a townhouse, sold by method "SA", or both of the latter.
ProbeForms ==
    {Defaults,
     [Defaults EXCEPT !.rooms = Typed(Widgets.rooms, Widgets.rooms.max_value)],
     [Defaults EXCEPT !.property_type = PyStr("townhouse")],
     [Defaults EXCEPT !.method = PyStr("SA")],
     [Defaults EXCEPT !.property_type = PyStr("townhouse"), !.method = PyStr("SA")]}

Next ==
    \/ Rerun
    \/ \E form \in ProbeForms, remember \in BOOLEAN : Submit(form, remember)
    \/ \E name \in Range(LoadOrder) : \E content \in Contents(name) :
          ReplaceArtifact(name, content)

Spec == Init /\ [][Next]_vars

\* The same process with the artifacts left alone and the wider set of forms.
NextForm ==
    \/ Rerun
    \/ \E form \in FormInputs : Submit(form, FALSE)

SpecForm == Init /\ [][NextForm]_vars

----------------------------------------------------------------------------
(* Properties *)

\* Some run of main() has happened.
Ran == models_data # Unbound

\* The last run got a bundle and the submit button was pressed in it.
Submitted == Ran /\ submit_button /\ models_data # None

HasElement(kind) == \E i \in DOMAIN ui : ui[i].element = kind
HasMessage(kind, body) == \E i \in DOMAIN ui : ui[i] = Message(kind, body)
Count(kind) == Cardinality({i \in DOMAIN ui : ui[i].element = kind})
AllPresent == \A n \in Range(LoadOrder) : files[n] # Missing
Field(c) == input_data.data[c][1]

\* C1: whenever a predict call of a submission raised, the error message is
\* shown, main() ends without an exception, and the three metrics and the
\* bar chart are rendered for the None that predict_price returned.
C1_PredictFailureHandled ==
    (Submitted /\ (linear_pred = None \/ poly_pred = None)) =>
        /\ HasMessage("error", PredictErrorText)
        /\ exc = "none"
        /\ Count("metric") = 3
        /\ HasElement("pyplot")

\* C2: when one of the five artifacts is missing, load_models gives None and
\* its error message, main() adds its own error message and returns: no tabs,
\* no form, no input record, no predict call, no exception.
C2_LoadFailureEndsMain ==
    (Ran /\ ~AllPresent) =>
        /\ models_data = None
        /\ HasMessage("error", LoadErrorText)
        /\ ui[Len(ui)] = Message("error", MainErrorText)
        /\ Count("error") = 2
        /\ ~HasElement("tabs") /\ ~HasElement("form") /\ ~HasElement("tab2")
        /\ input_data = Unbound
        /\ calls = <<>>
        /\ exc = "none"

\* A submission was attempted while only the preprocessor was missing.
C2_Witness ==
    /\ Ran /\ submit_button
    /\ files[PreprocessorFile] = Missing
    /\ \A n \in Range(LoadOrder) \ {PreprocessorFile} : files[n] # Missing
    /\ models_data = None

NoRepeat(seq) == \A i, j \in DOMAIN seq : seq[i] = seq[j] => i = j

\* C3: no artifact file is read twice in the life of the process; once
\* load_models has a cached result, no step reads a file or changes that
\* result, and every later run of main() receives it, a None included.
C3_LoadedAtMostOnce ==
    [][/\ NoRepeat(reads')
       /\ cache.type = "cached" =>
            /\ cache' = cache
            /\ reads' = reads
            /\ (files' = files => models_data' = cache.value)]_vars

\* The first load failed, the artifacts have all been put in place since,
\* and after at least two runs the failure is still what main() gets.
C3_Witness ==
    /\ snap.type = "snap" /\ ~submit_button
    /\ cache.type = "cached" /\ cache.value = None /\ models_data = None
    /\ AllPresent
    /\ Len(reads) < Len(LoadOrder)

\* C4: predict is called only in a run whose submit button was pressed; such
\* a run builds one record and passes it to the linear pipeline first and to
\* the polynomial pipeline second, once each, also when the first call failed.
C4_PredictOnlyOnSubmit ==
    Ran =>
        /\ (~submit_button \/ models_data = None) =>
              calls = <<>> /\ input_data = Unbound
        /\ Submitted =>
              /\ input_data.type = "DataFrame"
              /\ Len(calls) = 2
              /\ calls[1].model = models_data["Linear Regression"]
              /\ calls[2].model = models_data["Polynomial Regression (degree=2)"]
              /\ calls[1].X = input_data
              /\ calls[2].X = input_data

\* The linear call failed and the polynomial pipeline was called after it.
C4_Witness ==
    /\ Submitted
    /\ linear_pred = None
    /\ Len(calls) = 2
    /\ calls[2].model.degree = 2
    /\ IsNumber(poly_pred)

\* pieces, without its leading and trailing whitespace, is words.
StrippedIs(pieces, words) ==
    \E a \in 1..(Len(pieces) + 1), b \in 0..Len(pieces) :
        /\ \A k \in 1..(a - 1) : pieces[k] \in Whitespace
        /\ \A k \in (b + 1)..Len(pieces) : pieces[k] \in Whitespace
        /\ SubSeq(pieces, a, b) = words

\* C5: the best prediction is the linear prediction when the text of
\* best_model_name.txt, stripped, is 'Linear Regression', and the polynomial
\* prediction for every other text, whatever the two predictions are.
C5_BestChosenByLabel ==
    Submitted =>
        /\ best_pred \in {linear_pred, poly_pred}
        /\ StrippedIs(files[BestNameFile].pieces, <<"Linear", " ", "Regression">>)
              => best_pred = linear_pred
        /\ ~StrippedIs(files[BestNameFile].pieces, <<"Linear", " ", "Regression">>)
              => best_pred = poly_pred

\* The label file reads "Linear Regression\n" and the linear prediction, the
\* larger of two different numbers, is the best one.
C5_Witness ==
    /\ Submitted
    /\ files[BestNameFile].pieces = <<"Linear", " ", "Regression", "\n">>
    /\ IsNumber(linear_pred) /\ IsNumber(poly_pred)
    /\ linear_pred.v > poly_pred.v
    /\ best_pred = linear_pred

NumericFields == {c \in Range(input_data.columns) : IsNumber(Field(c))}
CategoricalFields == {c \in Range(input_data.columns) : Field(c).type = "str"}

OneRowOfThirteen ==
    /\ Len(input_data.columns) = 13
    /\ NoRepeat(input_data.columns)
    /\ DOMAIN input_data.data = Range(input_data.columns)
    /\ \A c \in Range(input_data.columns) : Len(input_data.data[c]) = 1

\* C6 as stated: every record built on a submission is one row of thirteen
\* named fields, seven of them numeric and six categorical.
C6_SevenNumericSixCategorical ==
    Submitted =>
        /\ OneRowOfThirteen
        /\ Cardinality(NumericFields) = 7
        /\ Cardinality(CategoricalFields) = 6

\* C6 as amended: every record built on a submission is one row of thirteen
\* named fields, nine of them numeric and four categorical.
C6_NineNumericFourCategorical ==
    Submitted =>
        /\ OneRowOfThirteen
        /\ Cardinality(NumericFields) = 9
        /\ Cardinality(CategoricalFields) = 4

\* A record was built from the form with every widget at its upper limit.
C6_Witness ==
    /\ Submitted
    /\ Field("Car") = PyInt(5)
    /\ Field("CouncilArea") = PyStr("Yarra Ranges")

ColumnOf ==
    [Rooms |-> "rooms", Distance |-> "distance", Bedroom2 |-> "bedrooms",
     Bathroom |-> "bathrooms", Car |-> "car_spaces", Landsize |-> "land_size",
     BuildingArea |-> "building_area", YearBuilt |-> "year_built",
     Propertycount |-> "property_count", Type |-> "property_type",
     Method |-> "method", Regionname |-> "region", CouncilArea |-> "council"]

InRange(x, type, lo, hi, step) ==
    x.type = type /\ lo <= x.v /\ x.v <= hi /\ (x.v - lo) % step = 0

OneOf(x, options) == x.type = "str" /\ x.v \in Range(options)

\* C8: every record passed to predict holds, field by field, the value some
\* form gave, inside the range or option set of that field's widget
\* (Distance in tenths: 0.0 to 40.0 in steps of 0.5).
C8_FieldsWithinWidgetRanges ==
    Submitted =>
        /\ \A i \in DOMAIN calls : calls[i].X = input_data
        /\ \E form \in FormInputs :
              \A c \in DOMAIN ColumnOf : input_data.data[c] = <<form[ColumnOf[c]]>>
        /\ InRange(Field("Rooms"), "int", 1, 10, 1)
        /\ InRange(Field("Bedroom2"), "int", 1, 8, 1)
        /\ InRange(Field("Bathroom"), "int", 1, 5, 1)
        /\ InRange(Field("Car"), "int", 0, 5, 1)
        /\ InRange(Field("Landsize"), "int", 50, 2000, 1)
        /\ InRange(Field("BuildingArea"), "int", 50, 1000, 1)
        /\ InRange(Field("YearBuilt"), "int", 1900, 2023, 1)
        /\ InRange(Field("Distance"), "float", 0, 400, 5)
        /\ InRange(Field("Propertycount"), "int", 100, 10000, 100)
        /\ OneOf(Field("Type"), <<"house", "unit", "townhouse">>)
        /\ OneOf(Field("Method"), <<"S", "SP", "PI", "VB", "SA">>)
        /\ OneOf(Field("Regionname"), RegionOptions) /\ Len(RegionOptions) = 8
        /\ OneOf(Field("CouncilArea"), CouncilOptions) /\ Len(CouncilOptions) = 31

\* The record of the form with the land size typed in at its upper limit.
C8_Witness ==
    /\ Submitted
    /\ Field("Landsize") = PyInt(2000)
    /\ Field("BuildingArea") = PyInt(150)
    /\ Len(calls) = 2

\* C9: the success message and the metrics are shown only in a submission
\* whose two predictions are numbers; where a prediction is None the error
\* message is shown and the success message is not.
C9_SuccessOnlyWithBothPredictions ==
    Submitted =>
        /\ (HasMessage("success", SuccessText) \/ HasElement("metric"))
              => IsNumber(linear_pred) /\ IsNumber(poly_pred)
        /\ (linear_pred = None \/ poly_pred = None)
              => /\ HasMessage("error", PredictErrorText)
                 /\ ~HasMessage("success", SuccessText)

FullBundle(m) ==
    /\ m.type = "dict"
    /\ {"Linear Regression", "Polynomial Regression (degree=2)",
        "best_model_name", "preprocessor", "feature_info"} \subseteq DOMAIN m
    /\ m["Linear Regression"].type = "Pipeline"
    /\ m["Polynomial Regression (degree=2)"].type = "Pipeline"
    /\ m["preprocessor"].type = "ColumnTransformer"
    /\ m["feature_info"].type = "dict"

\* C10: what load_models returns is None or a dict holding all five entries;
\* a load that stopped before the fifth read gave None; and the form is
\* rendered only by a run that holds the full dict.
C10_BundleAllOrNothing ==
    /\ cache.type = "cached" =>
          /\ cache.value = None \/ FullBundle(cache.value)
          /\ Len(reads) < Len(LoadOrder) => cache.value = None
    /\ Ran => models_data = None \/ FullBundle(models_data)
    /\ HasElement("form") => Ran /\ FullBundle(models_data)

\* The load failed at its fourth read, after three artifacts were loaded.
C10_Witness ==
    /\ Ran
    /\ reads = <<LinearFile, PolyFile, PreprocessorFile, FeatureInfoFile>>
    /\ cache.type = "cached" /\ cache.value = None
    /\ models_data = None

====
